---- MODULE Spec2Model ----
(***************************************************************************)
(* The relaxed deliveries problem (relaxed_deliveries_problem.py) and the  *)
(* heuristics over it (deliveries_heuristics.py).                          *)
(*                                                                         *)
(* Fuel, distances and costs are real numbers in the program.  Here they   *)
(* are exact rationals held as a whole number of ticks, one tick being     *)
(* 1 / (SubTicks * 1000000) of a fuel unit, so that values closer together *)
(* than the 1/1000000 resolution of fuel_as_int can be told apart.         *)
(***************************************************************************)
EXTENDS Integers, FiniteSets, Sequences, TLC

\* The factor of fuel_as_int: int(self.fuel * 1000000).
Resolution == 1000000

\* Ticks per 1/1000000 of a fuel unit (the model's resolution below a bucket).
SubTicks == 2

\* Largest fuel, in ticks, of the states built for the equality checks.
MaxFuelTicks == 7

\* Largest path cost, in whole distance units, followed from an origin state.
MaxCost == 40

\* Longest sequence of stops looked at for the cheapest way to a goal.
MaxStops == 6

\* One fuel (or distance) unit, in ticks.
Unit == SubTicks * Resolution

(***************************************************************************)
(* Geometry: junctions and the air distance between them.  The junctions   *)
(* lie on an integer grid; S and A share a position, D is off the line of  *)
(* the others.                                                             *)
(***************************************************************************)
Coord ==
    [S |-> <<0, 0>>, A |-> <<0, 0>>, B |-> <<10, 0>>, C |-> <<20, 0>>,
     D |-> <<15, 5>>, G |-> <<5, 0>>]

Junctions == DOMAIN Coord

Abs(x) == IF x < 0 THEN 0 - x ELSE x

\* Junction.calc_air_distance_from: symmetric, non-negative, obeys the
\* triangle inequality (the grid's city-block metric), in ticks.
calc_air_distance_from(j1, j2) ==
    Unit * (Abs(Coord[j1][1] - Coord[j2][1]) + Abs(Coord[j1][2] - Coord[j2][2]))

(***************************************************************************)
(* RelaxedDeliveriesState                                                  *)
(***************************************************************************)
\* The assertion of __init__: assert fuel > 0.
StateAssertion(fuel) == fuel > 0

RelaxedDeliveriesState(current_location, dropped_so_far, fuel) ==
    [current_location |-> current_location,
     dropped_so_far |-> dropped_so_far,
     fuel |-> fuel]

\* A faulty variant of fuel_as_int: rounds to the nearest bucket instead of truncating.
fuel_as_int_rounded(fuel) == (fuel + (SubTicks \div 2)) \div SubTicks

\* int(self.fuel * 1000000): a fuel of `fuel` ticks is fuel / (SubTicks * 1000000)
\* units, so fuel * 1000000 is fuel / SubTicks, and int() truncates it (towards
\* zero, which for the fuel of a state, never negative, is downwards).
fuel_as_int(fuel) == fuel \div SubTicks

\* __eq__
StateEq(s1, s2) ==
    LET location_equal == s1.current_location = s2.current_location
        drop_off_equal == s1.dropped_so_far = s2.dropped_so_far
        fuel_equal == fuel_as_int(s1.fuel) = fuel_as_int(s2.fuel)
    IN  location_equal /\ drop_off_equal /\ fuel_equal

\* __hash__: the hash of the tuple, taken as the tuple itself (no collisions).
StateHash(s) == <<s.current_location, s.dropped_so_far, fuel_as_int(s.fuel)>>

(***************************************************************************)
(* RelaxedDeliveriesProblem                                                *)
(***************************************************************************)
\* __init__: the fields taken from the problem input.
RelaxedDeliveriesProblem(input) ==
    [start_point |-> input.start_point,
     drop_points |-> input.drop_points,
     gas_stations |-> input.gas_stations,
     gas_tank_capacity |-> input.gas_tank_capacity,
     possible_stop_points |-> input.drop_points \cup input.gas_stations,
     initial_state |->
         RelaxedDeliveriesState(input.start_point, {}, input.gas_tank_init_fuel)]

\* The assertions __init__ makes on its input.
ProblemAssertions(input) ==
    /\ input.start_point \notin input.drop_points
    /\ StateAssertion(input.gas_tank_init_fuel)

\* A faulty variant of Skipped: forgets the check of the points already dropped.
SkippedNoDroppedCheck(p, s, q) ==
    \/ q = s.current_location
    \/ s.fuel - calc_air_distance_from(s.current_location, q) < 0

\* The three `continue`s of expand_state_with_costs.
Skipped(p, s, q) ==
    \/ q = s.current_location
    \/ q \in s.dropped_so_far
    \/ s.fuel - calc_air_distance_from(s.current_location, q) < 0

\* A faulty variant of SuccessorFuel: a gas station does not refuel.
SuccessorFuelNoRefuel(p, s, q) ==
    s.fuel - calc_air_distance_from(s.current_location, q)

\* successor_state_fuel when the successor is built.
SuccessorFuel(p, s, q) ==
    IF q \in p.drop_points
    THEN s.fuel - calc_air_distance_from(s.current_location, q)
    ELSE p.gas_tank_capacity

\* A faulty variant of SuccessorDropped: the drop set is replaced, not extended.
SuccessorDroppedReplaced(p, s, q) ==
    IF q \in p.drop_points THEN {q} ELSE s.dropped_so_far

\* successor_state_dropped_points
SuccessorDropped(p, s, q) ==
    IF q \in p.drop_points
    THEN s.dropped_so_far \cup {q}
    ELSE s.dropped_so_far

\* The pair yielded for q: (successor_state, distance).
Yielded(p, s, q) ==
    [state |-> RelaxedDeliveriesState(q, SuccessorDropped(p, s, q),
                                      SuccessorFuel(p, s, q)),
     cost |-> calc_air_distance_from(s.current_location, q)]

\* The points for which the loop builds a successor state.
Built(p, s) == {q \in p.possible_stop_points : ~Skipped(p, s, q)}

\* The points at which building the successor fails its assertion.
Failing(p, s) == {q \in Built(p, s) : ~StateAssertion(SuccessorFuel(p, s, q))}

\* expand_state_with_costs, consumed to its end: what it yields and whether
\* an AssertionError leaves it.  The set is iterated in no fixed order, so
\* any of the other successors may have been yielded before the error.
ExpandOutcomes(p, s) ==
    LET good == {Yielded(p, s, q) : q \in Built(p, s) \ Failing(p, s)}
    IN  IF Failing(p, s) = {}
        THEN {[yielded |-> good, raised |-> FALSE]}
        ELSE {[yielded |-> y, raised |-> TRUE] : y \in SUBSET good}

\* is_goal
is_goal(p, s) == s.dropped_so_far = p.drop_points

(***************************************************************************)
(* MaxAirDistHeuristic                                                     *)
(***************************************************************************)
SetMax(S) == CHOOSE x \in S : \A y \in S : y <= x

RECURSIVE SetSum(_)
SetSum(S) == IF S = {} THEN 0 ELSE LET x == CHOOSE x \in S : TRUE
                                   IN  x + SetSum(S \ {x})

\* A faulty variant of MaxAirDistEstimate: the air distances are added up.
MaxAirDistEstimateSum(p, s) ==
    LET left_orders_set == p.drop_points \ s.dropped_so_far
    IN  SetSum({calc_air_distance_from(drop_point, s.current_location) :
                    drop_point \in left_orders_set})

\* MaxAirDistHeuristic.estimate
MaxAirDistEstimate(p, s) ==
    LET left_orders_set == p.drop_points \ s.dropped_so_far
    IN  SetMax({0} \cup {calc_air_distance_from(drop_point, s.current_location) :
                              drop_point \in left_orders_set})

(***************************************************************************)
(* MSTAirDistHeuristic                                                     *)
(*                                                                         *)
(* The distance cache (a dict) is the set of its entries, each a key and   *)
(* the value stored under it.                                              *)
(***************************************************************************)
EmptyCache == {}

CacheHas(cache, key) == \E e \in cache : e.key = key

CacheAt(cache, key) == (CHOOSE e \in cache : e.key = key).value

\* cache[key] = value
CacheStore(cache, key, value) ==
    {e \in cache : e.key # key} \cup {[key |-> key, value |-> value]}

\* A faulty variant of junctions_pair: the key holds the first junction only.
junctions_pair_first(junction1, junction2) == {junction1}

\* junctions_pair = frozenset({junction1, junction2})
junctions_pair(junction1, junction2) == {junction1, junction2}

\* _get_distance_between_junctions: the distance returned and the cache left.
GetDistance(cache, junction1, junction2) ==
    LET key == junctions_pair(junction1, junction2)
    IN  IF CacheHas(cache, key)
        THEN [dist |-> CacheAt(cache, key), cache |-> cache]
        ELSE LET dist == calc_air_distance_from(junction1, junction2)
             IN  [dist |-> dist, cache |-> CacheStore(cache, key, dist)]

\* The double loop of _calculate_junctions_air_dist_mst_weight from its k-th
\* step on (steps run over j1_idx, then j2_idx); idx_to_junction is a sequence.
RECURSIVE FillMatrix(_, _, _, _)
FillMatrix(idx_to_junction, k, matrix, cache) ==
    LET n == Len(idx_to_junction)
        j1_idx == ((k - 1) \div n) + 1
        j2_idx == ((k - 1) % n) + 1
    IN  IF k > n * n
        THEN [matrix |-> matrix, cache |-> cache]
        ELSE IF j1_idx = j2_idx
        THEN FillMatrix(idx_to_junction, k + 1, matrix, cache)
        ELSE LET got == GetDistance(cache, idx_to_junction[j1_idx],
                                    idx_to_junction[j2_idx])
                 filled == [matrix EXCEPT ![<<j1_idx, j2_idx>>] = got.dist,
                                          ![<<j2_idx, j1_idx>>] = got.dist]
             IN  FillMatrix(idx_to_junction, k + 1, filled, got.cache)

\* np.zeros((nr_junctions, nr_junctions))
Zeros(n) == [ij \in (1 .. n) \X (1 .. n) |-> 0]

\* The weight the spanning-tree routine sees between two indices: an entry of
\* 0 in a dense matrix is no edge; of two entries, the smaller is taken.
EdgeWeight(matrix, e) ==
    LET a == matrix[<<e[1], e[2]>>]
        b == matrix[<<e[2], e[1]>>]
    IN  IF a = 0 THEN b ELSE IF b = 0 THEN a ELSE IF a < b THEN a ELSE b

\* The edges of the graph the spanning-tree routine reads from the matrix.
GraphEdges(matrix, n) ==
    {e \in (1 .. n) \X (1 .. n) : e[1] < e[2] /\ EdgeWeight(matrix, e) > 0}

\* Kruskal's algorithm: the total weight of a minimum spanning forest.
RECURSIVE Kruskal(_, _, _, _)
Kruskal(matrix, edges, comp, total) ==
    IF edges = {}
    THEN total
    ELSE LET e == CHOOSE e \in edges :
                      \A f \in edges : EdgeWeight(matrix, e) <= EdgeWeight(matrix, f)
             rest == edges \ {e}
         IN  IF comp[e[1]] = comp[e[2]]
             THEN Kruskal(matrix, rest, comp, total)
             ELSE Kruskal(matrix, rest,
                          [x \in DOMAIN comp |->
                              IF comp[x] = comp[e[2]] THEN comp[e[1]] ELSE comp[x]],
                          total + EdgeWeight(matrix, e))

\* mst(distances_matrix).sum()
MstSum(matrix, n) ==
    Kruskal(matrix, GraphEdges(matrix, n), [x \in 1 .. n |-> x], 0)

\* _calculate_junctions_air_dist_mst_weight: the weight and the cache left.
CalculateMstWeight(cache, idx_to_junction) ==
    LET n == Len(idx_to_junction)
        filled == FillMatrix(idx_to_junction, 1, Zeros(n), cache)
    IN  [weight |-> MstSum(filled.matrix, n), cache |-> filled.cache]

\* A faulty variant of RemainedDropPoints: the current location is left out.
RemainedDropPointsOnly(p, s) == p.drop_points \ s.dropped_so_far

\* The junctions MSTAirDistHeuristic.estimate hands on.
RemainedDropPoints(p, s) ==
    (p.drop_points \ s.dropped_so_far) \cup {s.current_location}

\* The orders in which a set may be enumerated.
Enumerations(S) ==
    {f \in [1 .. Cardinality(S) -> S] : \A x \in S : \E i \in DOMAIN f : f[i] = x}

\* MSTAirDistHeuristic.estimate on a heuristic whose cache is `cache`, the set
\* of junctions being enumerated as idx_to_junction.
MSTAirDistEstimate(cache, idx_to_junction) ==
    CalculateMstWeight(cache, idx_to_junction)

\* The value of MSTAirDistHeuristic.estimate on a fresh heuristic.
MSTAirDistValue(p, s) ==
    LET order == CHOOSE f \in Enumerations(RemainedDropPoints(p, s)) : TRUE
    IN  MSTAirDistEstimate(EmptyCache, order).weight

(***************************************************************************)
(* The state machine: a search over one relaxed problem.                   *)
(*                                                                         *)
(*   problem, state     the problem and the state the search is at         *)
(*   pc                 "expand": state is to be expanded;                  *)
(*                      "expanded": expand_state_with_costs(state) has run *)
(*   yielded, raised    what that call yielded, and whether it raised      *)
(*   origin, cost       a state the search passed and the cost of the path *)
(*                      from it to state (the search node's cost)          *)
(*   lhs, rhs, compared two states and the outcome of comparing them       *)
(*   cache, last        the distance cache of one MSTAirDistHeuristic and  *)
(*                      its last call                                      *)
(*   open, closed,      the solver run by RelaxedDeliveriesHeuristic       *)
(*   result             .estimate on its sub-problem, and what estimate    *)
(*                      returns                                            *)
(***************************************************************************)
VARIABLES problem, state, pc, yielded, raised, origin, cost,
          lhs, rhs, compared, cache, last, open, closed, result

vars == <<problem, state, pc, yielded, raised, origin, cost,
          lhs, rhs, compared, cache, last, open, closed, result>>

searchVars == <<state, pc, yielded, raised, origin, cost>>
eqVars == <<lhs, rhs, compared>>
cacheVars == <<cache, last>>
solveVars == <<open, closed, result>>

\* The problem of the end-to-end example: drop points A, B, C at 0, 10, 20,
\* a gas station at 5, the start at 0 with fuel 12, capacity 30.
ExampleInput ==
    [start_point |-> "S", drop_points |-> {"A", "B", "C"},
     gas_stations |-> {"G"}, gas_tank_capacity |-> 30 * Unit,
     gas_tank_init_fuel |-> 12 * Unit]

\* The problem inputs explored: those that pass the assertions of __init__.
ProblemInputs ==
    {input \in [start_point : {"S"},
                drop_points : SUBSET {"A", "B", "C", "D"},
                gas_stations : {{}, {"G"}, {"G", "B"}},
                gas_tank_capacity : {15 * Unit, 30 * Unit},
                gas_tank_init_fuel : {10 * Unit, 12 * Unit}] :
        ProblemAssertions(input)}

NoState == RelaxedDeliveriesState("S", {}, Unit)
NoCall == [call |-> "none", args |-> <<>>, result |-> 0]
NotCompared == [done |-> FALSE, eq |-> FALSE, hash_equal |-> FALSE]
Running == [kind |-> "running", value |-> 0]

\* The parts of the state a specification does not use, at rest.
SearchIdle ==
    /\ state = problem.initial_state
    /\ pc = "expand"
    /\ yielded = {}
    /\ raised = FALSE
    /\ origin = state
    /\ cost = 0

EqIdle == lhs = NoState /\ rhs = NoState /\ compared = NotCompared
CacheIdle == cache = EmptyCache /\ last = NoCall
SolveIdle == open = {} /\ closed = {} /\ result = Running

Init ==
    /\ \E input \in ProblemInputs : problem = RelaxedDeliveriesProblem(input)
    /\ SearchIdle
    /\ EqIdle
    /\ CacheIdle
    /\ SolveIdle

\* The search calls expand_state_with_costs(state) and consumes what it yields.
Expand ==
    /\ pc = "expand"
    /\ \E outcome \in ExpandOutcomes(problem, state) :
           /\ yielded' = outcome.yielded
           /\ raised' = outcome.raised
    /\ pc' = "expanded"
    /\ UNCHANGED <<problem, state, origin, cost, eqVars, cacheVars, solveVars>>

\* The search goes on from one of the yielded successors; the cost is counted
\* on from the origin, or anew from the successor.
Follow ==
    /\ pc = "expanded"
    /\ ~raised
    /\ \E y \in yielded :
           /\ state' = y.state
           /\ \/ /\ cost + y.cost <= MaxCost * Unit
                 /\ cost' = cost + y.cost
                 /\ origin' = origin
              \/ /\ cost' = 0
                 /\ origin' = y.state
    /\ pc' = "expand"
    /\ yielded' = {}
    /\ UNCHANGED <<problem, raised, eqVars, cacheVars, solveVars>>

Next == Expand \/ Follow

Spec == Init /\ [][Next]_vars

(***************************************************************************)
(* Comparing two states: __eq__ and __hash__.                              *)
(***************************************************************************)
\* States with fuels of a few ticks, which is less than a few 1/1000000.
EqStates ==
    {RelaxedDeliveriesState(l, d, f) :
        l \in {"A", "B"}, d \in {{}, {"A"}}, f \in 1 .. MaxFuelTicks}

InitEq ==
    /\ problem = RelaxedDeliveriesProblem(ExampleInput)
    /\ SearchIdle
    /\ lhs \in EqStates
    /\ rhs \in EqStates
    /\ compared = NotCompared
    /\ CacheIdle
    /\ SolveIdle

\* lhs == rhs and hash(lhs) == hash(rhs) are evaluated.
Compare ==
    /\ ~compared.done
    /\ compared' = [done |-> TRUE,
                    eq |-> StateEq(lhs, rhs),
                    hash_equal |-> StateHash(lhs) = StateHash(rhs)]
    /\ UNCHANGED <<problem, searchVars, lhs, rhs, cacheVars, solveVars>>

\* Two more states are constructed.
Construct ==
    /\ compared.done
    /\ lhs' \in EqStates
    /\ rhs' \in EqStates
    /\ StateAssertion(lhs'.fuel) /\ StateAssertion(rhs'.fuel)
    /\ compared' = NotCompared
    /\ UNCHANGED <<problem, searchVars, cacheVars, solveVars>>

NextEq == Compare \/ Construct

SpecEq == InitEq /\ [][NextEq]_vars

(***************************************************************************)
(* One MSTAirDistHeuristic and its distance cache.                         *)
(***************************************************************************)
\* The junctions the calls are made on.
CacheJunctions == {"S", "A", "B", "C"}

\* The states estimate is called with: those of the example problem that a
\* search can be at (a drop point it is at has been dropped).
CacheStates ==
    {s \in [current_location : CacheJunctions,
            dropped_so_far : SUBSET problem.drop_points,
            fuel : {problem.gas_tank_capacity}] :
        s.current_location \in problem.drop_points =>
            s.current_location \in s.dropped_so_far}

InitCache ==
    /\ problem = RelaxedDeliveriesProblem(ExampleInput)
    /\ SearchIdle
    /\ EqIdle
    /\ CacheIdle
    /\ SolveIdle

\* estimate(s) is called; the set of junctions is enumerated in some order.
EstimateCall ==
    /\ \E s \in CacheStates :
           \E idx_to_junction \in Enumerations(RemainedDropPoints(problem, s)) :
               LET r == MSTAirDistEstimate(cache, idx_to_junction)
               IN  /\ cache' = r.cache
                   /\ last' = [call |-> "estimate", args |-> s, result |-> r.weight]
    /\ UNCHANGED <<problem, searchVars, eqVars, solveVars>>

\* _get_distance_between_junctions(junction1, junction2) is called.
GetDistanceCall ==
    /\ \E junction1 \in CacheJunctions, junction2 \in CacheJunctions :
           /\ junction1 # junction2
           /\ LET r == GetDistance(cache, junction1, junction2)
              IN  /\ cache' = r.cache
                  /\ last' = [call |-> "get", args |-> <<junction1, junction2>>,
                              result |-> r.dist]
    /\ UNCHANGED <<problem, searchVars, eqVars, solveVars>>

NextCache == EstimateCall \/ GetDistanceCall

SpecCache == InitCache /\ [][NextCache]_vars

(***************************************************************************)
(* RelaxedDeliveriesHeuristic.estimate: the relaxed sub-problem of a state *)
(* of the strict problem is solved by A* with MSTAirDistHeuristic.         *)
(***************************************************************************)
\* The strict problems and their states estimate is called with: a state at
\* a drop point has dropped it, and its fuel is positive.
StrictCalls ==
    {c \in [drop_points : SUBSET {"A", "B", "C"},
            gas_stations : {{}, {"G"}},
            gas_tank_capacity : {15 * Unit, 30 * Unit},
            current_location : {"S", "A", "B", "G"},
            dropped_so_far : SUBSET {"A", "B", "C"},
            fuel : {5 * Unit, 10 * Unit, 12 * Unit}] :
        /\ c.dropped_so_far \subseteq c.drop_points
        /\ c.current_location \in c.drop_points \cup c.gas_stations \cup {"S"}
        /\ c.current_location \in c.drop_points =>
               c.current_location \in c.dropped_so_far}

\* sub_problem_input = DeliveriesProblemInput(...)
SubProblemInput(c) ==
    [start_point |-> c.current_location,
     drop_points |-> c.drop_points \ c.dropped_so_far,
     gas_stations |-> c.gas_stations,
     gas_tank_capacity |-> c.gas_tank_capacity,
     gas_tank_init_fuel |-> c.fuel]

\* What estimate returns: np.inf, the cost of the final search node, or the
\* AssertionError that leaves it.
Infinity == [kind |-> "inf", value |-> 0]
Cost(c) == [kind |-> "cost", value |-> c]
AssertionError == [kind |-> "AssertionError", value |-> 0]

\* estimate builds the sub-problem and the solver starts on its initial state.
InitSolve ==
    /\ \E c \in StrictCalls :
           /\ ProblemAssertions(SubProblemInput(c))
           /\ problem = RelaxedDeliveriesProblem(SubProblemInput(c))
    /\ SearchIdle
    /\ EqIdle
    /\ CacheIdle
    /\ open = {[state |-> problem.initial_state, cost |-> 0]}
    /\ closed = {}
    /\ result = Running

\* The priority of an open node: its cost plus the MSTAirDist estimate.
Priority(node) == node.cost + MSTAirDistValue(problem, node.state)

\* The open nodes the solver may take next.
NextNodes == {n \in open : \A m \in open : Priority(n) <= Priority(m)}

\* The nodes among `nodes` that hold the state s (states compare by __eq__).
NodesOf(nodes, s) == {n \in nodes : StateEq(n.state, s)}

\* The open and closed sets after the successors `succs` of `node` are seen:
\* a successor is opened unless its state is known at no greater a cost.
RECURSIVE Opened(_, _, _, _)
Opened(node, succs, op, cl) ==
    IF succs = {}
    THEN [open |-> op, closed |-> cl]
    ELSE LET y == CHOOSE y \in succs : TRUE
             new == [state |-> y.state, cost |-> node.cost + y.cost]
             known == NodesOf(op \cup cl, y.state)
         IN  IF \E n \in known : n.cost <= new.cost
             THEN Opened(node, succs \ {y}, op, cl)
             ELSE Opened(node, succs \ {y}, (op \ known) \cup {new}, cl \ known)

\* The solver takes a goal node: estimate returns its cost.
SolveGoal ==
    /\ result = Running
    /\ \E node \in NextNodes :
           /\ is_goal(problem, node.state)
           /\ result' = Cost(node.cost)
    /\ UNCHANGED <<problem, searchVars, eqVars, cacheVars, open, closed>>

\* The solver takes a node that is no goal and expands it; an AssertionError
\* of the expansion leaves the solver and estimate.
SolveExpand ==
    /\ result = Running
    /\ \E node \in NextNodes :
           /\ ~is_goal(problem, node.state)
           /\ \E outcome \in ExpandOutcomes(problem, node.state) :
                  IF outcome.raised
                  THEN /\ result' = AssertionError
                       /\ UNCHANGED <<open, closed>>
                  ELSE LET after == Opened(node, outcome.yielded,
                                           open \ {node}, closed \cup {node})
                       IN  /\ open' = after.open
                           /\ closed' = after.closed
                           /\ result' = result
    /\ UNCHANGED <<problem, searchVars, eqVars, cacheVars>>

\* No node is open: the solver has no final search node, estimate returns
\* np.inf.
SolveFail ==
    /\ result = Running
    /\ open = {}
    /\ result' = Infinity
    /\ UNCHANGED <<problem, searchVars, eqVars, cacheVars, open, closed>>

NextSolve == SolveGoal \/ SolveExpand \/ SolveFail

SpecSolve == InitSolve /\ [][NextSolve]_vars

(***************************************************************************)
(* Claims on expand_state_with_costs                                       *)
(***************************************************************************)
YieldedAt(q) == {y \in yielded : y.state.current_location = q}

\* C1 (as claimed): expand_state_with_costs(s) completes without error; it
\* yields exactly one successor at q when q is not the current location, is
\* not dropped and is within the fuel (candidate fuel >= 0, 0 included), and
\* none at q otherwise; every yielded successor has fuel > 0.
CE_C1 ==
    pc = "expanded" =>
        /\ ~raised
        /\ \A q \in problem.possible_stop_points :
               IF /\ q # state.current_location
                  /\ q \notin state.dropped_so_far
                  /\ calc_air_distance_from(state.current_location, q) <= state.fuel
               THEN Cardinality(YieldedAt(q)) = 1
               ELSE YieldedAt(q) = {}
        /\ \A y \in yielded : y.state.fuel > 0

\* C3 (as claimed): every yielded successor at a gas station, one that is a
\* drop point too included, has fuel gas_tank_capacity and the drop set of s.
CE_C3 ==
    pc = "expanded" =>
        \A y \in yielded :
            y.state.current_location \in problem.gas_stations =>
                /\ y.state.fuel = problem.gas_tank_capacity
                /\ y.state.dropped_so_far = state.dropped_so_far

\* C3 (amended): every yielded successor at a gas station that is not a drop
\* point has fuel gas_tank_capacity and the drop set of s.
Thm_C3 ==
    pc = "expanded" =>
        \A y \in yielded :
            y.state.current_location \in problem.gas_stations \ problem.drop_points =>
                /\ y.state.fuel = problem.gas_tank_capacity
                /\ y.state.dropped_so_far = state.dropped_so_far

\* C3 witness: a gas station was yielded from a state with drops made, and
\* the fuel left on arrival is not the capacity.
Wit_C3 ==
    /\ pc = "expanded"
    /\ state.dropped_so_far # {}
    /\ \E y \in yielded :
           /\ y.state.current_location \in problem.gas_stations \ problem.drop_points
           /\ state.fuel - y.cost # problem.gas_tank_capacity

DropSuccessorsRight ==
    pc = "expanded" =>
        \A y \in yielded :
            LET q == y.state.current_location
                d == calc_air_distance_from(state.current_location, q)
            IN  q \in problem.drop_points =>
                    /\ y.state.dropped_so_far = state.dropped_so_far \cup {q}
                    /\ y.state.fuel = state.fuel - d
                    /\ y.cost = d

ExpandFrame ==
    (pc = "expand" /\ pc' = "expanded") => (state' = state /\ problem' = problem)

\* C4: every yielded successor at a drop point q has the drop set of s plus
\* q, the fuel of s less the distance to q, and that distance as cost; the
\* expansion leaves s and the problem as they were.
Thm_C4 == []DropSuccessorsRight /\ [][ExpandFrame]_vars

\* C4 witness: a drop point was yielded from a state with a drop made.
Wit_C4 ==
    /\ pc = "expanded"
    /\ state.dropped_so_far # {}
    /\ \E y \in yielded :
           /\ y.state.current_location \in problem.drop_points
           /\ y.cost > 0

NeverBack ==
    /\ state.dropped_so_far \subseteq state'.dropped_so_far
    /\ state' # state => state'.current_location \notin state.dropped_so_far

\* C9: dropped_so_far is always a subset of drop_points, never loses an
\* element, and no transition moves to a point already dropped; gas
\* stations may be visited again (the witness).
Thm_C9 ==
    /\ [](state.dropped_so_far \subseteq problem.drop_points)
    /\ [][NeverBack]_vars

\* C9 witness: the search is back at the gas station it passed, drops made.
Wit_C9 ==
    /\ state.current_location \in problem.gas_stations \ problem.drop_points
    /\ origin.current_location = state.current_location
    /\ cost > 0
    /\ origin.dropped_so_far # {}
    /\ state.dropped_so_far # origin.dropped_so_far

(***************************************************************************)
(* Claims on the heuristics                                                *)
(***************************************************************************)
\* C5 (as claimed): both estimates of a state are at most the cost of every
\* path of expansions from it to a goal, and are 0 on a goal state.
CE_C5 ==
    is_goal(problem, state) =>
        /\ MaxAirDistEstimate(problem, origin) <= cost
        /\ MSTAirDistValue(problem, origin) <= cost
        /\ MaxAirDistEstimate(problem, state) = 0
        /\ MSTAirDistValue(problem, state) = 0

\* C6: the MaxAirDist estimate of a state is at most its MSTAirDist estimate.
Thm_C6 ==
    MaxAirDistEstimate(problem, state) <= MSTAirDistValue(problem, state)

\* C6 witness: two drop points or more remain and the estimates differ.
Wit_C6 ==
    /\ Cardinality(problem.drop_points \ state.dropped_so_far) >= 2
    /\ state.dropped_so_far # {}
    /\ 0 < MaxAirDistEstimate(problem, state)
    /\ MaxAirDistEstimate(problem, state) < MSTAirDistValue(problem, state)

InExample == problem = RelaxedDeliveriesProblem(ExampleInput)

AfterDroppingA ==
    /\ state.current_location = "A"
    /\ state.dropped_so_far = {"A"}

SameLocationAndDrops ==
    /\ lhs.current_location = rhs.current_location
    /\ lhs.dropped_so_far = rhs.dropped_so_far

\* The difference of the two fuels, in ticks; 1/1000000 is SubTicks ticks.
FuelDifference == Abs(lhs.fuel - rhs.fuel)

\* Both fuels lie in one interval [k/1000000, (k+1)/1000000).
SameBucket ==
    \E k \in 0 .. MaxFuelTicks :
        /\ k * SubTicks <= lhs.fuel /\ lhs.fuel < (k + 1) * SubTicks
        /\ k * SubTicks <= rhs.fuel /\ rhs.fuel < (k + 1) * SubTicks

\* C2 (as claimed): two states at one location with one drop set compare
\* equal and hash equal when their fuels differ by less than 1/1000000, and
\* compare unequal when the fuels differ by more than that.
CE_C2 ==
    (compared.done /\ SameLocationAndDrops) =>
        /\ FuelDifference < SubTicks => (compared.eq /\ compared.hash_equal)
        /\ FuelDifference > SubTicks => ~compared.eq

\* C2 (amended): two states at one location with one drop set compare equal
\* and hash equal when their fuels lie in the same 1/1000000 bucket, and
\* compare unequal when the fuels differ by more than 1/1000000.
Thm_C2 ==
    (compared.done /\ SameLocationAndDrops) =>
        /\ SameBucket => (compared.eq /\ compared.hash_equal)
        /\ FuelDifference > SubTicks => ~compared.eq

\* C2 witness: two states with different fuels of one bucket were compared.
Wit_C2 ==
    /\ compared.done
    /\ SameLocationAndDrops
    /\ SameBucket
    /\ lhs.fuel # rhs.fuel
    /\ compared.eq

(***************************************************************************)
(* Claims on the distance cache                                            *)
(***************************************************************************)
\* No unordered pair has two entries, and each entry holds the distance of
\* its pair.
CacheRight ==
    /\ \A e1 \in cache, e2 \in cache : e1.key = e2.key => e1 = e2
    /\ \A e \in cache :
           \E j1 \in Junctions, j2 \in Junctions :
               /\ j1 # j2
               /\ e.key = {j1, j2}
               /\ e.value = calc_air_distance_from(j1, j2)

GetSymmetric ==
    \A j1 \in CacheJunctions, j2 \in CacheJunctions :
        j1 # j2 => GetDistance(cache, j1, j2).dist = GetDistance(cache, j2, j1).dist

\* What the last call returned is what a heuristic fresh from its
\* constructor returns to that call.
LastCallRight ==
    /\ last.call = "estimate" =>
           last.result = MSTAirDistValue(problem, last.args)
    /\ last.call = "get" =>
           last.result = GetDistance(EmptyCache, last.args[1], last.args[2]).dist

\* C10: the cache holds at most one entry per unordered pair, each the
\* distance of its pair; entries are never removed or changed; the distance
\* of (p1, p2) is that of (p2, p1); what a call returns does not depend on
\* the calls made before it.
Thm_C10 ==
    /\ [](CacheRight /\ GetSymmetric /\ LastCallRight)
    /\ [][cache \subseteq cache']_vars

\* C10 witness: estimate returned a weight above 0 from a cache that holds
\* more pairs than this call asked for (earlier calls filled it).
Wit_C10 ==
    /\ last.call = "estimate"
    /\ last.result > 0
    /\ LET n == Cardinality(RemainedDropPoints(problem, last.args))
       IN  n >= 2 /\ 2 * Cardinality(cache) > n * (n - 1)

(***************************************************************************)
(* Claims on RelaxedDeliveriesHeuristic.estimate                           *)
(***************************************************************************)
NoPath == 0 - 1

SetMin(S) == CHOOSE x \in S : \A y \in S : x <= y

\* The least total cost of a sequence of at most k expand transitions from s
\* to a goal state of p, NoPath when there is none.
RECURSIVE MinCostToGoal(_, _, _)
MinCostToGoal(p, s, k) ==
    IF is_goal(p, s) THEN 0
    ELSE IF k = 0 THEN NoPath
    ELSE LET succs == {Yielded(p, s, q) : q \in Built(p, s) \ Failing(p, s)}
             costs == {y.cost + MinCostToGoal(p, y.state, k - 1) :
                          y \in {z \in succs :
                                    MinCostToGoal(p, z.state, k - 1) # NoPath}}
         IN  IF costs = {} THEN NoPath ELSE SetMin(costs)

\* C8 (as claimed): estimate returns +infinity, and raises no error, when the
\* sub-problem has no sequence of expand transitions to a goal, and the least
\* total cost of one when it has.
CE_C8 ==
    result # Running =>
        LET least == MinCostToGoal(problem, problem.initial_state, MaxStops)
        IN  result = IF least = NoPath THEN Infinity ELSE Cost(least)

====
